---- MODULE Spec2Model ----
(***************************************************************************)
(* A model of msk_inventory_fetcher.py: the cluster descriptor resolver    *)
(* (get_msk_cluster_details), the metric aggregation engine                *)
(* (get_msk_metrics) and the region scan with the report assembly (main).  *)
(*                                                                         *)
(* Python values are modelled as cells: None, a number (an exact rational, *)
(* so that sum(...) / len(...) is computed as the code computes it, up to  *)
(* floating-point rounding) or a string.  A dict is a function from its    *)
(* keys to cells; a key the dict does not hold is not in its DOMAIN.       *)
(***************************************************************************)
EXTENDS Integers, Sequences, FiniteSets, TLC

VARIABLES
    pc,                      \* position of the modelled run
    cluster_type,            \* get_msk_metrics argument
    number_of_broker_nodes,  \* get_msk_metrics argument
    mi,                      \* index of the next entry of the metric table
    metrics_data,            \* get_msk_metrics: the result dict being built
    queries,                 \* get_metric_statistics calls issued, in order
    focus,                   \* the metric whose responses are drawn in full (0: none)
    resp,                    \* the responses the queries of metric `focus' got
    raised,                  \* an exception left get_msk_metrics
    api,                     \* what the cluster description and subnet APIs return
    cluster_details,         \* the result of get_msk_cluster_details
    subnet_queries,          \* describe_subnets calls issued: the SubnetIds of each, in order
    regions,                 \* len(REGIONS_TO_SCAN)
    region,                  \* index of the region being scanned
    cloudwatch,              \* how the region's metrics backend answers
    clusters_in_region,      \* the cluster ids the listing returned
    ci,                      \* index of the next cluster of clusters_in_region
    all_cluster_data,        \* the rows collected so far
    report,                  \* the table written to the output file
    outcome,                 \* what the end of the run printed
    listed,                  \* history: per region scanned, what its listing gave
    scanned                  \* history: per cluster processed, its region, id and description

mvars == <<cluster_type, number_of_broker_nodes, mi, metrics_data, queries, focus, resp, raised>>
dvars == <<api, cluster_details, subnet_queries>>
svars == <<regions, region, cloudwatch, clusters_in_region, ci, all_cluster_data,
           report, outcome, listed, scanned>>
vars == <<pc, mvars, dvars, svars>>

----------------------------------------------------------------------------
(* Bounds of the model. *)

\* Largest broker count of a modelled cluster.
MaxBrokers == 2
\* Metric samples are drawn from 1..MaxValue.
MaxValue == 2
\* Largest number of datapoints a cluster-level query returns.
MaxDatapoints == 2
\* Largest number of client subnets (and of zone ids) of a cluster.
MaxSubnets == 2
\* Availability zones are numbered 1..MaxZones.
MaxZones == 2
\* Largest number of regions of REGIONS_TO_SCAN.
MaxRegions == 2
\* Largest number of clusters of the account, over all its regions.
MaxClusters == 2
\* Long subnet lists have up to MaxChunks full batches (and one identifier more).
MaxChunks == 2

----------------------------------------------------------------------------
(* Python values. *)

Null == [t |-> "null", n |-> 0, d |-> 1, s |-> ""]
Num(k) == [t |-> "num", n |-> k, d |-> 1, s |-> ""]
Str(x) == [t |-> "str", n |-> 0, d |-> 1, s |-> x]

RECURSIVE GCD(_, _)
GCD(a, b) == IF b = 0 THEN a ELSE GCD(b, a % b)

\* The number a / b (b > 0, a >= 0), in lowest terms.
Rat(a, b) ==
    LET g == GCD(a, b)
    IN  [t |-> "num", n |-> a \div g, d |-> b \div g, s |-> ""]

\* bool(x) of a cell.
Truthy(c) ==
    \/ c.t = "num" /\ c.n # 0
    \/ c.t = "str" /\ c.s # ""

\* int(x) raises on None and on the strings of the model, none of which is a numeral.
IntRaises(c) == c.t # "num"
IntOf(c) == c.n \div c.d

EmptyDict == <<>>
\* d[k] = v
SetKey(d, k, v) == (k :> v) @@ d

Range(s) == {s[i] : i \in DOMAIN s}

RECURSIVE SumSeq(_)
SumSeq(s) == IF s = <<>> THEN 0 ELSE Head(s).n + SumSeq(Tail(s))

MaxSeq(s) == CHOOSE x \in Range(s) : \A y \in Range(s) : y.n <= x.n

----------------------------------------------------------------------------
(* The policy tables of get_msk_metrics. *)

serverless_metric_configs ==
    << [name |-> "BytesInPerSec", unit |-> "Bytes/Second"],
       [name |-> "BytesOutPerSec", unit |-> "Bytes/Second"] >>

metric_configs ==
    << [name |-> "StorageUsedPercent", cw_metric_name |-> "KafkaDataLogsDiskUsed",
        aggregation_type |-> "avg_brokers_peak_max_agg"],
       [name |-> "GlobalPartitionCount", cw_metric_name |-> "GlobalPartitionCount",
        aggregation_type |-> "cluster_latest_value"],
       [name |-> "GlobalTopicCount", cw_metric_name |-> "GlobalTopicCount",
        aggregation_type |-> "cluster_latest_value"],
       [name |-> "BytesInPerSec", cw_metric_name |-> "BytesInPerSec",
        aggregation_type |-> "sum_brokers_agg"],
       [name |-> "BytesOutPerSec", cw_metric_name |-> "BytesOutPerSec",
        aggregation_type |-> "sum_brokers_agg"],
       [name |-> "ClientConnectionCount", cw_metric_name |-> "ClientConnectionCount",
        aggregation_type |-> "sum_brokers_agg"],
       [name |-> "ConnectionCloseRate", cw_metric_name |-> "ConnectionCloseRate",
        aggregation_type |-> "sum_brokers_agg"],
       [name |-> "ConnectionCreationRate", cw_metric_name |-> "ConnectionCreationRate",
        aggregation_type |-> "sum_brokers_agg"],
       [name |-> "RequestBytesMean", cw_metric_name |-> "RequestBytesMean",
        aggregation_type |-> "avg_brokers_peak_max_agg"] >>

AvgKey(name) == name \o "_Avg"
PeakKey(name) == name \o "_Peak"

----------------------------------------------------------------------------
(* The metrics query API: a call raises, or returns a list of datapoints.  *)
(* A datapoint is [Timestamp, Average, Maximum]; Null stands for a         *)
(* statistic the datapoint does not carry.                                 *)

Failure == [kind |-> "fail", Datapoints |-> <<>>]
Reply(dps) == [kind |-> "ok", Datapoints |-> dps]
Datapoint(ts, avg, max) == [Timestamp |-> ts, Average |-> avg, Maximum |-> max]

Samples == {Null} \cup {Num(k) : k \in 1..MaxValue}

\* A query with Period = the whole window: the code reads Datapoints[0] only.
WindowResponses ==
    {Failure, Reply(<<>>)} \cup
    {Reply(<<Datapoint(1, a, m)>>) : a \in Samples, m \in Samples}

\* A 15-minute query at 60 s granularity: datapoints of distinct timestamps, in any order.
LatestResponses ==
    {Failure} \cup
    UNION {
      {Reply([i \in 1..k |-> Datapoint(ts[i], Null, mx[i])]) :
          ts \in {f \in [1..k -> 1..MaxDatapoints] :
                     \A i, j \in 1..k : i # j => f[i] # f[j]},
          mx \in [1..k -> Samples]} : k \in 0..MaxDatapoints}

\* The responses of a healthy and of an unavailable backend, with one fixed sample.
SampleOk == Reply(<<Datapoint(1, Num(1), Num(2))>>)
CoarseResponses == {Failure, Reply(<<>>), SampleOk}

NoResponse == [cluster |-> Failure, brokers |-> <<>>]

----------------------------------------------------------------------------
(* get_msk_metrics, one metric of the Serverless table (lines 134-159). *)

ServerlessMetric(config, md, qs, R) ==
    LET q == Append(qs, [metric |-> config.name, broker |-> 0])
        r == R.cluster
    IN  IF r.kind = "fail"
        THEN [md |-> SetKey(SetKey(md, AvgKey(config.name), Null),
                            PeakKey(config.name), Null),
              queries |-> q, raised |-> FALSE]
        ELSE LET has == r.Datapoints # <<>>
                 avg_val == IF has THEN r.Datapoints[1].Average ELSE Null
                 peak_val == IF has THEN r.Datapoints[1].Maximum ELSE Null
             IN  [md |-> SetKey(SetKey(md, AvgKey(config.name), avg_val),
                                PeakKey(config.name), peak_val),
                  queries |-> q, raised |-> FALSE]

----------------------------------------------------------------------------
(* get_msk_metrics, one metric of the Provisioned table (lines 180-240). *)

\* Mutant: the datapoints are taken in the order returned, unsorted.
FirstDatapoint(dps) == dps[1]

\* sorted(Datapoints, key=Timestamp, reverse=True)[0]: the sort is stable.
LatestDatapoint(dps) ==
    dps[CHOOSE i \in 1..Len(dps) :
          /\ \A j \in 1..Len(dps) : dps[j].Timestamp <= dps[i].Timestamp
          /\ \A j \in 1..(i - 1) : dps[j].Timestamp < dps[i].Timestamp]

\* Lines 192-194.
LatestValue(r) ==
    IF r.Datapoints # <<>> THEN LatestDatapoint(r.Datapoints).Maximum ELSE Null

\* Lines 207-218: one broker's query and the samples it adds.
BrokerSamples(acc, r) ==
    IF r.kind = "fail" \/ r.Datapoints = <<>>
    THEN acc
    ELSE LET datapoint == r.Datapoints[1]
         IN  [acc EXCEPT
                !.avg = IF datapoint.Average # Null
                        THEN Append(@, datapoint.Average) ELSE @,
                !.peak = IF datapoint.Maximum # Null
                         THEN Append(@, datapoint.Maximum) ELSE @]

\* Lines 204-218: for i in range(1, int(number_of_broker_nodes) + 1).
RECURSIVE PerBrokerLoop(_, _, _, _, _)
PerBrokerLoop(config, n, rs, i, acc) ==
    IF i > n
    THEN acc
    ELSE PerBrokerLoop(config, n, rs, i + 1,
            [BrokerSamples(acc, rs[i]) EXCEPT
                !.queries = Append(@, [metric |-> config.cw_metric_name, broker |-> i])])

\* Mutant: the sum of the averages is divided by the number of samples.
SumBrokersAvgDivided(avgs) ==
    IF avgs # <<>> THEN Rat(SumSeq(avgs), Len(avgs)) ELSE Null

\* Lines 220-222.
SumBrokersAvg(avgs) == IF avgs # <<>> THEN Num(SumSeq(avgs)) ELSE Null
SumBrokersPeak(peaks) == IF peaks # <<>> THEN Num(SumSeq(peaks)) ELSE Null

\* Mutant: the averages are summed, not averaged.
AvgBrokersAvgSummed(avgs) == IF avgs # <<>> THEN Num(SumSeq(avgs)) ELSE Null

\* Lines 224-226.
AvgBrokersAvg(avgs) == IF avgs # <<>> THEN Rat(SumSeq(avgs), Len(avgs)) ELSE Null
AvgBrokersPeak(peaks) == IF peaks # <<>> THEN MaxSeq(peaks) ELSE Null

\* Line 200: if not number_of_broker_nodes or int(number_of_broker_nodes) == 0: continue
SkipsBrokerLoop(nb) == ~Truthy(nb) \/ (~IntRaises(nb) /\ IntOf(nb) = 0)

\* Mutant: the handler starts the result over with the failed metric's keys.
MetricFailedDropsOthers(config, md, qs) ==
    IF config.aggregation_type = "cluster_latest_value"
    THEN [md |-> SetKey(EmptyDict, config.name, Null), queries |-> qs, raised |-> FALSE]
    ELSE [md |-> SetKey(SetKey(EmptyDict, AvgKey(config.name), Null),
                        PeakKey(config.name), Null),
          queries |-> qs, raised |-> FALSE]

\* Mutant: the handler raises again.
MetricFailedReraise(config, md, qs) ==
    [md |-> md, queries |-> qs, raised |-> TRUE]

\* Mutant: the handler only logs and leaves the metric's keys unset.
MetricFailedLogOnly(config, md, qs) ==
    [md |-> md, queries |-> qs, raised |-> FALSE]

\* Lines 234-240: the handler of the metric's own try.
MetricFailed(config, md, qs) ==
    IF config.aggregation_type = "cluster_latest_value"
    THEN [md |-> SetKey(md, config.name, Null), queries |-> qs, raised |-> FALSE]
    ELSE [md |-> SetKey(SetKey(md, AvgKey(config.name), Null),
                        PeakKey(config.name), Null),
          queries |-> qs, raised |-> FALSE]

ProvisionedMetric(config, nb, md, qs, R) ==
    IF config.aggregation_type = "cluster_latest_value"
    THEN LET q == Append(qs, [metric |-> config.cw_metric_name, broker |-> 0])
         IN  IF R.cluster.kind = "fail"
             THEN MetricFailed(config, md, q)
             ELSE [md |-> SetKey(md, config.name, LatestValue(R.cluster)),
                   queries |-> q, raised |-> FALSE]
    ELSE IF SkipsBrokerLoop(nb)
         THEN [md |-> md, queries |-> qs, raised |-> FALSE]
         ELSE IF IntRaises(nb)
              THEN MetricFailed(config, md, qs)
              ELSE LET acc == PerBrokerLoop(config, IntOf(nb), R.brokers, 1,
                                  [avg |-> <<>>, peak |-> <<>>, queries |-> qs])
                       sum == config.aggregation_type = "sum_brokers_agg"
                       cluster_avg_value == IF sum THEN SumBrokersAvg(acc.avg)
                                            ELSE AvgBrokersAvg(acc.avg)
                       cluster_peak_value == IF sum THEN SumBrokersPeak(acc.peak)
                                             ELSE AvgBrokersPeak(acc.peak)
                   IN  [md |-> SetKey(SetKey(md, AvgKey(config.name), cluster_avg_value),
                                      PeakKey(config.name), cluster_peak_value),
                        queries |-> acc.queries, raised |-> FALSE]

\* The policy table a cluster type selects (lines 128, 163, 244).
PolicyTable(ctype) ==
    IF ctype = "Serverless" THEN serverless_metric_configs
    ELSE IF ctype = "Provisioned" THEN metric_configs
    ELSE <<>>

\* One iteration of the loop over the policy table.
ProcessMetric(ctype, config, nb, md, qs, R) ==
    IF ctype = "Serverless"
    THEN ServerlessMetric(config, md, qs, R)
    ELSE ProvisionedMetric(config, nb, md, qs, R)

\* The responses the queries of one metric can get, given the responses one
\* cluster-level query (CR) and one per-broker query (BR) can get.
MetricInputs(ctype, config, nb, CR, BR) ==
    IF ctype = "Serverless" \/ config.aggregation_type = "cluster_latest_value"
    THEN {[cluster |-> r, brokers |-> <<>>] : r \in CR}
    ELSE IF SkipsBrokerLoop(nb) \/ IntRaises(nb)
         THEN {NoResponse}
         ELSE {[cluster |-> Failure, brokers |-> rs] : rs \in [1..IntOf(nb) -> BR]}

----------------------------------------------------------------------------
(* The arguments of a call. *)

ClusterTypes == {"Provisioned", "Serverless", "Unknown"}

BrokerCounts ==
    {Null, Str("N/A"), Str("")} \cup {Num(k) : k \in 0..MaxBrokers}

\* get_msk_metrics as a whole: cw[i] holds the responses of the table's i-th metric.
\* MetricsLoop is the state of the call after the first i entries of the table;
\* the state before an entry is bound once (st) and handed to the entry's step.
RECURSIVE MetricsLoop(_, _, _, _)
MetricsLoop(ctype, nb, cw, i) ==
    IF i = 0
    THEN [md |-> EmptyDict, queries |-> <<>>, raised |-> FALSE]
    ELSE LET Body(st) ==
                 IF st.raised THEN st
                 ELSE ProcessMetric(ctype, PolicyTable(ctype)[i], nb,
                                    st.md, st.queries, cw[i])
         IN  CHOOSE out \in {Body(st) : st \in {MetricsLoop(ctype, nb, cw, i - 1)}} : TRUE

get_msk_metrics(ctype, nb, cw) ==
    MetricsLoop(ctype, nb, cw, Len(PolicyTable(ctype)))

----------------------------------------------------------------------------
(* get_msk_cluster_details (lines 10-119).                                 *)
(*                                                                         *)
(* A raw sub-structure is a record with a shape: "absent" (the key is not  *)
(* there), "empty" (an empty dict, falsy in Python) or "dict".  A flag of  *)
(* the authentication structure is TRUE when its sub-structure is there    *)
(* with Enabled true, which is all the chained .get() calls tell apart.    *)

\* subnet_chunks = [client_subnets[i:i + 100] for i in range(0, len(client_subnets), 100)]
ChunkSize == 100

Min(a, b) == IF a <= b THEN a ELSE b

NumChunks(subnets) == (Len(subnets) + ChunkSize - 1) \div ChunkSize
Chunk(subnets, c) ==
    SubSeq(subnets, (c - 1) * ChunkSize + 1, Min(c * ChunkSize, Len(subnets)))

\* Mutant: only the first chunk is looked up.
ZonesOfFirstChunk(subnets, ec2, c, availability_zones_set) ==
    IF ec2.fail_at = 1 THEN Len(subnets)
    ELSE Cardinality({ec2.az[x] : x \in Range(Chunk(subnets, 1))})

\* Lines 65-76: the zones of the subnets, chunk by chunk; any failure falls back
\* to the number of subnets.
RECURSIVE ZonesOfChunks(_, _, _, _)
ZonesOfChunks(subnets, ec2, c, availability_zones_set) ==
    IF c > NumChunks(subnets)
    THEN Cardinality(availability_zones_set)
    ELSE IF ec2.fail_at = c
         THEN Len(subnets)
         ELSE ZonesOfChunks(subnets, ec2, c + 1,
                 availability_zones_set \cup
                    {ec2.az[x] : x \in Range(Chunk(subnets, c))})

\* Lines 59-76.
NumberOfAvailabilityZones(bngi, ec2) ==
    IF bngi.ZoneIds.shape = "list" /\ bngi.ZoneIds.ids # <<>>
    THEN Len(bngi.ZoneIds.ids)
    ELSE IF bngi.ClientSubnets = <<>>
         THEN 0
         ELSE IF ~ec2.client_ok
              THEN Len(bngi.ClientSubnets)
              ELSE ZonesOfChunks(bngi.ClientSubnets, ec2, 1, {})

\* Lines 56-57.
StoragePerBrokerGB(bngi) ==
    IF bngi.EbsStorageInfo.shape = "dict"
    THEN bngi.EbsStorageInfo.VolumeSize
    ELSE Str("N/A")

RECURSIVE Join(_)
Join(methods) ==
    IF methods = <<>> THEN ""
    ELSE IF Len(methods) = 1 THEN methods[1]
    ELSE methods[1] \o ", " \o Join(Tail(methods))

\* Lines 94-99: the enabled methods, in the order they are inspected.
AuthMethods(a) ==
    (IF a.Iam THEN <<"IAM">> ELSE <<>>) \o
    (IF a.Scram THEN <<"SCRAM">> ELSE <<>>) \o
    (IF a.Tls THEN <<"mTLS">> ELSE <<>>) \o
    (IF a.Unauthenticated THEN <<"Unauthenticated">> ELSE <<>>)

\* Lines 21, 94-100: `if client_auth_info:' is the truth value of the structure.
AuthString(client_auth_info) ==
    IF client_auth_info.shape = "dict"
    THEN IF AuthMethods(client_auth_info) # <<>>
         THEN Str(Join(AuthMethods(client_auth_info)))
         ELSE Str("None Enabled")
    ELSE Str("N/A")

\* Lines 25-39: the description the two lookups give, if any.
DescribeOk(a) == (a.v2 = "ok" \/ a.v1 = "ok") /\ a.info.shape = "dict"

\* Lines 49, 80: which branch extracts the details.
Branch(cluster_info) ==
    IF cluster_info.Provisioned.shape = "dict" THEN "Provisioned"
    ELSE IF cluster_info.Serverless.shape = "dict" THEN "Serverless"
    ELSE "none"

\* Mutant: client_auth_info is initialized with the other locals.
AuthInfoInitialized(cluster_info) == FALSE

\* Line 95 reads client_auth_info, which only the two branches assign.
AuthInfoUnbound(cluster_info) == Branch(cluster_info) = "none"

\* Lines 42-46.
CreationTimeStr(creation_time_obj) ==
    IF creation_time_obj.t = "datetime" THEN Str("2024-01-01 00:00:00")
    ELSE IF Truthy(creation_time_obj) THEN Str(creation_time_obj.s)
    ELSE Null

NoDetails == [ok |-> FALSE, d |-> EmptyDict]

\* Lines 41-114 for a description that was retrieved.
ExtractDetails(arn, cluster_info, ec2) ==
    LET branch == Branch(cluster_info)
        prov == cluster_info.Provisioned
        bngi == prov.BrokerNodeGroupInfo
        kafka_1 == IF branch = "Provisioned" THEN prov.KafkaVersion
                   ELSE IF branch = "Serverless" THEN Str("Managed (Serverless)")
                   ELSE Null
        nodes_1 == IF branch = "Provisioned" THEN prov.NumberOfBrokerNodes
                   ELSE Str("N/A")
        kafka_version == IF ~Truthy(kafka_1) THEN cluster_info.KafkaVersion ELSE kafka_1
        nodes == IF nodes_1 = Str("N/A") /\ Truthy(cluster_info.NumberOfBrokerNodes)
                 THEN cluster_info.NumberOfBrokerNodes ELSE nodes_1
        client_auth_info == IF branch = "Provisioned" THEN prov.ClientAuthentication
                            ELSE cluster_info.Serverless.ClientAuthentication
    IN  IF AuthInfoUnbound(cluster_info)
        THEN NoDetails
        ELSE [ok |-> TRUE,
              d |-> [k \in {"ClusterName", "ClusterArn", "ClusterType", "CreationTime",
                            "KafkaVersion", "Authentication", "NumberOfBrokerNodes",
                            "BrokerInstanceType", "StoragePerBrokerGB",
                            "NumberOfAvailabilityZones"} |->
                      CASE k = "ClusterName" -> cluster_info.ClusterName
                        [] k = "ClusterArn" -> arn
                        [] k = "ClusterType" -> Str(IF branch = "Serverless"
                                                    THEN "Serverless" ELSE "Provisioned")
                        [] k = "CreationTime" -> CreationTimeStr(cluster_info.CreationTime)
                        [] k = "KafkaVersion" -> kafka_version
                        [] k = "Authentication" -> AuthString(client_auth_info)
                        [] k = "NumberOfBrokerNodes" -> nodes
                        [] k = "BrokerInstanceType" ->
                              IF branch = "Provisioned" THEN bngi.InstanceType
                              ELSE Str("N/A")
                        [] k = "StoragePerBrokerGB" ->
                              IF branch = "Provisioned" THEN StoragePerBrokerGB(bngi)
                              ELSE Str("N/A")
                        [] OTHER ->
                              IF branch = "Provisioned"
                              THEN Num(NumberOfAvailabilityZones(bngi, ec2))
                              ELSE Num(0)]]

get_msk_cluster_details(arn, a) ==
    IF DescribeOk(a) THEN ExtractDetails(arn, a.info, a.ec2) ELSE NoDetails

\* Lines 63-70: the describe_subnets calls get_msk_cluster_details issues, the
\* last of them being the one that raised, if one did.
DescribeSubnetsCalls(a) ==
    LET bngi == a.info.Provisioned.BrokerNodeGroupInfo
        client_subnets == bngi.ClientSubnets
        zone_ids == bngi.ZoneIds
        last == IF a.ec2.fail_at \in 1..NumChunks(client_subnets)
                THEN a.ec2.fail_at ELSE NumChunks(client_subnets)
    IN  IF /\ DescribeOk(a)
           /\ Branch(a.info) = "Provisioned"
           /\ ~(zone_ids.shape = "list" /\ zone_ids.ids # <<>>)
           /\ a.ec2.client_ok
        THEN [c \in 1..last |-> Chunk(client_subnets, c)]
        ELSE <<>>

----------------------------------------------------------------------------
(* What the cluster description API (describe_cluster_v2, describe_cluster) *)
(* and the subnet API (describe_subnets) can return.                       *)

DateTime == [t |-> "datetime", n |-> 0, d |-> 1, s |-> ""]

AuthAbsent ==
    [shape |-> "absent", Iam |-> FALSE, Scram |-> FALSE, Tls |-> FALSE,
     Unauthenticated |-> FALSE]
AuthEmpty == [AuthAbsent EXCEPT !.shape = "empty"]
AuthDicts ==
    [shape : {"dict"}, Iam : BOOLEAN, Scram : BOOLEAN, Tls : BOOLEAN,
     Unauthenticated : BOOLEAN]
AuthInfos == {AuthAbsent, AuthEmpty} \cup AuthDicts
AuthIam == [AuthAbsent EXCEPT !.shape = "dict", !.Iam = TRUE]
AuthNoneEnabled == [AuthAbsent EXCEPT !.shape = "dict"]

NoZoneIds == [shape |-> "absent", ids |-> <<>>]
ZoneIdLists == {NoZoneIds} \cup
    {[shape |-> "list", ids |-> [i \in 1..k |-> i]] : k \in 0..MaxSubnets}
SubnetLists == {[i \in 1..k |-> i] : k \in 0..MaxSubnets}
NoEbs == [shape |-> "absent", VolumeSize |-> Null]
EbsInfos == {NoEbs, [shape |-> "dict", VolumeSize |-> Null],
             [shape |-> "dict", VolumeSize |-> Num(100)]}

Ec2Ok == [client_ok |-> TRUE, fail_at |-> 0, az |-> [x \in 1..MaxSubnets |-> 1]]
Ec2s ==
    [client_ok : BOOLEAN, fail_at : 0..1, az : [1..MaxSubnets -> 1..MaxZones]]

BaseGroup ==
    [InstanceType |-> Str("kafka.m5.large"),
     EbsStorageInfo |-> [shape |-> "dict", VolumeSize |-> Num(100)],
     ZoneIds |-> NoZoneIds,
     ClientSubnets |-> <<1>>]
Groups ==
    {[BaseGroup EXCEPT !.EbsStorageInfo = e, !.ZoneIds = z, !.ClientSubnets = c] :
        e \in EbsInfos, z \in ZoneIdLists, c \in SubnetLists}

BaseProvisioned ==
    [shape |-> "dict",
     KafkaVersion |-> Str("3.5.1"),
     NumberOfBrokerNodes |-> Num(1),
     BrokerNodeGroupInfo |-> BaseGroup,
     ClientAuthentication |-> AuthIam]
NoProvisioned ==
    [BaseProvisioned EXCEPT !.shape = "absent", !.KafkaVersion = Null,
                            !.NumberOfBrokerNodes = Null,
                            !.ClientAuthentication = AuthAbsent]
EmptyProvisioned == [NoProvisioned EXCEPT !.shape = "empty"]

BaseServerless == [shape |-> "dict", ClientAuthentication |-> AuthIam]
NoServerless == [shape |-> "absent", ClientAuthentication |-> AuthAbsent]
EmptyServerless == [NoServerless EXCEPT !.shape = "empty"]

\* A tagged description of a Provisioned cluster.
BaseInfo ==
    [shape |-> "dict",
     ClusterName |-> Str("cluster"),
     CreationTime |-> DateTime,
     Provisioned |-> BaseProvisioned,
     Serverless |-> NoServerless,
     KafkaVersion |-> Null,
     NumberOfBrokerNodes |-> Null]
\* The untagged description of the legacy lookup: software version and broker
\* count are top-level fields.
LegacyInfo ==
    [BaseInfo EXCEPT !.Provisioned = NoProvisioned,
                     !.KafkaVersion = Str("2.8.1"),
                     !.NumberOfBrokerNodes = Num(3)]

BaseApi == [v2 |-> "ok", v1 |-> "ok", info |-> BaseInfo, ec2 |-> Ec2Ok]

\* Descriptions that differ in which lookup answers, in the sub-structures there
\* are, in the name and in the generic top-level fields.
ShapeInputs ==
    {[v2 |-> a, v1 |-> b, ec2 |-> Ec2Ok,
      info |-> [shape |-> sh, ClusterName |-> nm, CreationTime |-> ct,
                Provisioned |-> pr, Serverless |-> sv,
                KafkaVersion |-> kv, NumberOfBrokerNodes |-> nn]] :
        a \in {"ok", "fail"}, b \in {"ok", "fail"}, sh \in {"empty", "dict"},
        nm \in {Null, Str("cluster")}, ct \in {Null, DateTime},
        pr \in {NoProvisioned, EmptyProvisioned} \cup
               {[BaseProvisioned EXCEPT !.NumberOfBrokerNodes = n, !.KafkaVersion = k,
                                        !.ClientAuthentication = au] :
                   n \in BrokerCounts, k \in {Null, Str("3.5.1")},
                   au \in {AuthAbsent, AuthIam}},
        sv \in {NoServerless, EmptyServerless, BaseServerless},
        kv \in {Null, Str("2.8.1")}, nn \in {Null, Num(3)}}

\* Descriptions that differ in the client authentication structure.
AuthInputs ==
    {[BaseApi EXCEPT !.info.Provisioned.ClientAuthentication = au] : au \in AuthInfos}
    \cup
    {[BaseApi EXCEPT !.info.Provisioned = NoProvisioned,
                     !.info.Serverless = [BaseServerless EXCEPT
                                             !.ClientAuthentication = au]] :
        au \in AuthInfos}

\* Descriptions that differ in the broker node group and in what the subnet
\* lookup returns.
GroupInputs ==
    {[BaseApi EXCEPT !.info.Provisioned.BrokerNodeGroupInfo = g, !.ec2 = e] :
        g \in Groups, e \in Ec2s}

DetailsInputs == ShapeInputs \cup AuthInputs \cup GroupInputs

\* Subnet lists around the batch size: one short of a full batch, a full batch,
\* one more, for up to MaxChunks batches.
SubnetCounts ==
    {0, 1} \cup {c * ChunkSize + d : c \in 1..MaxChunks, d \in {-1, 0, 1}}
LongSubnetLists == {[i \in 1..k |-> i] : k \in SubnetCounts}

\* The zone describe_subnets reports for a subnet: the zones repeat one subnet
\* after the other (stride 1) or one batch after the other (stride ChunkSize).
ZoneMaps ==
    {[x \in 1..(MaxChunks * ChunkSize + 1) |-> (((x - 1) \div stride) % z) + 1] :
        stride \in {1, ChunkSize}, z \in 1..MaxZones}

\* Descriptions of a Provisioned cluster that differ in the zone-id list, in the
\* subnet list and in what the subnet lookups return.
ZoneInputs ==
    {[BaseApi EXCEPT
        !.info.Provisioned.BrokerNodeGroupInfo =
            [BaseGroup EXCEPT !.ZoneIds = z, !.ClientSubnets = c],
        !.ec2 = [client_ok |-> ok, fail_at |-> f, az |-> m]] :
        z \in ZoneIdLists, c \in LongSubnetLists, ok \in BOOLEAN,
        f \in 0..(MaxChunks + 1), m \in ZoneMaps}

\* The descriptions of the clusters of a scan: Provisioned clusters with and
\* without a usable broker count, a Serverless cluster, a cluster neither lookup
\* describes, one without a name, and a legacy description without either
\* sub-structure.
ScanInputs ==
    {[BaseApi EXCEPT !.info.Provisioned.NumberOfBrokerNodes = n] :
        n \in {Null, Num(0), Str("N/A"), Num(MaxBrokers)}}
    \cup
    {[BaseApi EXCEPT !.v2 = "fail", !.v1 = "fail"],
     [BaseApi EXCEPT !.info.ClusterName = Null],
     [BaseApi EXCEPT !.info.Provisioned = NoProvisioned, !.info.Serverless = BaseServerless],
     [BaseApi EXCEPT !.info.Provisioned = EmptyProvisioned],
     [BaseApi EXCEPT !.v2 = "fail", !.info = LegacyInfo]}

----------------------------------------------------------------------------
(* main: the scan loop (lines 332-389) and the report (lines 392-444). *)

\* Lines 396-412: metric_configs_for_cols lists the names and aggregation types
\* of metric_configs.
latest_value_metric_names ==
    LET cfgs == SelectSeq(metric_configs,
                          LAMBDA c : c.aggregation_type = "cluster_latest_value")
    IN  [i \in 1..Len(cfgs) |-> cfgs[i].name]
avg_peak_metric_names ==
    LET cfgs == SelectSeq(metric_configs,
                          LAMBDA c : c.aggregation_type # "cluster_latest_value")
    IN  [i \in 1..Len(cfgs) |-> cfgs[i].name]
metric_keys_avg ==
    [i \in 1..Len(avg_peak_metric_names) |-> AvgKey(avg_peak_metric_names[i])]
metric_keys_peak ==
    [i \in 1..Len(avg_peak_metric_names) |-> PeakKey(avg_peak_metric_names[i])]

\* Lines 414-421.
column_order ==
    << "AccountID", "Region", "ClusterName", "ClusterArn", "ClusterType", "CreationTime",
       "KafkaVersion", "NumberOfBrokerNodes", "BrokerInstanceType",
       "NumberOfAvailabilityZones", "StoragePerBrokerGB", "Authentication" >>
    \o latest_value_metric_names \o metric_keys_avg \o metric_keys_peak

\* Mutant: missing values are filled with 0.
FrameCellZero(row, col) == IF col \in DOMAIN row THEN row[col] ELSE Num(0)

\* Lines 394, 423-426: a key a row lacks is a missing value of the frame, and a
\* column no row has is added as None.
FrameCell(row, col) == IF col \in DOMAIN row THEN row[col] ELSE Null

\* Lines 394-428: the frame in the fixed column order.
Frame(rows) ==
    [i \in 1..Len(rows) |-> [col \in Range(column_order) |-> FrameCell(rows[i], col)]]

ArnOf(i) == Str("arn-" \o ToString(i))

\* Lines 370-377: no details, or details without a cluster name.
SkipsCluster(details) == ~details.ok \/ ~Truthy(details.d["ClusterName"])

\* Mutant: a skipped cluster ends the loop over the region's clusters.
StopsAtSkippedCluster(i, clusters) == Len(clusters) + 1

\* Lines 365, 377, 389: the loop goes on with the next cluster after a skipped one.
AfterSkippedCluster(i, clusters) == i + 1

\* Lines 343, 359, 363: the loop goes on with the next region after a skipped one.
AfterSkippedRegion(r, n) == r + 1

\* The responses of a region's metrics backend to the queries of one call.
CloudwatchModes == {"ok", "fail"}
CwResponse(mode) == IF mode = "ok" THEN SampleOk ELSE Failure
CwFor(mode, ctype, nb) ==
    [i \in 1..Len(PolicyTable(ctype)) |->
        CHOOSE R \in MetricInputs(ctype, PolicyTable(ctype)[i], nb,
                                  {CwResponse(mode)}, {CwResponse(mode)}) : TRUE]

\* Lines 381-386.
Row(account, r, details, metrics) ==
    metrics @@ details @@ ("AccountID" :> account @@ "Region" :> Num(r))

AccountId == Str("123456789012")

----------------------------------------------------------------------------
(* The variables a specification does not use keep these values. *)

NoCall ==
    /\ cluster_type = "Unknown"
    /\ number_of_broker_nodes = Null
    /\ mi = 0
    /\ metrics_data = EmptyDict
    /\ queries = <<>>
    /\ focus = 0
    /\ resp = NoResponse
    /\ raised = FALSE

NoDescription ==
    /\ api = BaseApi
    /\ cluster_details = NoDetails
    /\ subnet_queries = <<>>

NoScan ==
    /\ regions = 0
    /\ region = 0
    /\ cloudwatch = "ok"
    /\ clusters_in_region = <<>>
    /\ ci = 0
    /\ all_cluster_data = <<>>
    /\ report = <<>>
    /\ outcome = ""
    /\ listed = <<>>
    /\ scanned = <<>>

----------------------------------------------------------------------------
(* One call of get_msk_metrics, one step per entry of the policy table.    *)
(* With focus = 0 every query fails, returns nothing or returns the fixed  *)
(* sample; with focus = k the queries of the k-th metric draw from all     *)
(* responses and the other metrics get the fixed sample.                   *)

StepInputs ==
    LET config == PolicyTable(cluster_type)[mi]
    IN  IF focus = 0
        THEN MetricInputs(cluster_type, config, number_of_broker_nodes,
                          CoarseResponses, CoarseResponses)
        ELSE IF focus = mi
             THEN MetricInputs(cluster_type, config, number_of_broker_nodes,
                               IF cluster_type = "Serverless" THEN WindowResponses
                               ELSE LatestResponses,
                               WindowResponses)
             ELSE MetricInputs(cluster_type, config, number_of_broker_nodes,
                               {SampleOk}, {SampleOk})

CallInit(F) ==
    /\ pc = "call"
    /\ cluster_type \in ClusterTypes
    /\ number_of_broker_nodes \in BrokerCounts
    /\ focus \in F
    /\ focus <= Len(PolicyTable(cluster_type))
    /\ mi = 1
    /\ metrics_data = EmptyDict
    /\ queries = <<>>
    /\ resp = NoResponse
    /\ raised = FALSE
    /\ NoDescription
    /\ NoScan

StepMetric ==
    /\ pc = "call"
    /\ mi <= Len(PolicyTable(cluster_type))
    /\ \E R \in StepInputs :
          LET out == ProcessMetric(cluster_type, PolicyTable(cluster_type)[mi],
                                   number_of_broker_nodes, metrics_data, queries, R)
          IN  /\ metrics_data' = out.md
              /\ queries' = out.queries
              /\ raised' = out.raised
              /\ resp' = IF focus = mi THEN R ELSE resp
              /\ pc' = IF out.raised THEN "raised" ELSE "call"
    /\ mi' = mi + 1
    /\ UNCHANGED <<cluster_type, number_of_broker_nodes, focus, dvars, svars>>

ReturnMetrics ==
    /\ pc = "call"
    /\ mi > Len(PolicyTable(cluster_type))
    /\ pc' = "returned"
    /\ UNCHANGED <<mvars, dvars, svars>>

CallNext == StepMetric \/ ReturnMetrics

\* Every query of the call fails, returns nothing, or returns the fixed sample.
MetricsSpec == CallInit({0}) /\ [][CallNext]_vars

\* One metric of the table gets every response of the bounded sets.
AggSpec == CallInit(1..Len(metric_configs)) /\ [][CallNext]_vars

----------------------------------------------------------------------------
(* get_msk_cluster_details applied to one raw description. *)

DetailsInit ==
    /\ pc = "describe"
    /\ api \in DetailsInputs
    /\ cluster_details = NoDetails
    /\ subnet_queries = <<>>
    /\ NoCall
    /\ NoScan

Resolve ==
    /\ pc = "describe"
    /\ cluster_details' = get_msk_cluster_details(ArnOf(1), api)
    /\ subnet_queries' = DescribeSubnetsCalls(api)
    /\ pc' = "resolved"
    /\ UNCHANGED <<api, mvars, svars>>

DetailsSpec == DetailsInit /\ [][Resolve]_vars

\* The same call for the descriptions with long subnet lists.
ZonesInit ==
    /\ pc = "describe"
    /\ api \in ZoneInputs
    /\ cluster_details = NoDetails
    /\ subnet_queries = <<>>
    /\ NoCall
    /\ NoScan

ZonesSpec == ZonesInit /\ [][Resolve]_vars

----------------------------------------------------------------------------
(* main, from the prompt for the profile to the end of the run. *)

Init ==
    /\ pc = "session"
    /\ NoCall
    /\ NoDescription
    /\ NoScan

\* Lines 264-279: the session is initialized, or the run ends with a fatal error.
InitSession ==
    /\ pc = "session"
    /\ \E ok \in BOOLEAN : pc' = IF ok THEN "regions" ELSE "exit"
    /\ UNCHANGED <<mvars, dvars, svars>>

\* Lines 282-329: the region list is the validated user list, the discovered list
\* or the default list; without a valid region the run ends.
ResolveRegions ==
    /\ pc = "regions"
    /\ \E n \in 0..MaxRegions :
          /\ regions' = n
          /\ region' = IF n = 0 THEN 0 ELSE 1
          /\ pc' = IF n = 0 THEN "exit" ELSE "scan"
    /\ UNCHANGED <<mvars, dvars, cloudwatch, clusters_in_region, ci, all_cluster_data,
                   report, outcome, listed, scanned>>

\* The ids of the clusters listed so far.
ListedSoFar ==
    IF listed = <<>> THEN 0
    ELSE LET f[i \in 0..Len(listed)] ==
                 IF i = 0 THEN 0 ELSE f[i - 1] + Len(listed[i].arns)
         IN  f[Len(listed)]

\* Lines 332-363: the clients of the region and the listing of its clusters, by
\* list_clusters_v2 or, when that fails, by list_clusters.
ScanRegion ==
    /\ pc = "scan"
    /\ region <= regions
    /\ \E client_ok \in BOOLEAN, listing \in {"v2", "v1", "fail"},
          k \in 0..(MaxClusters - ListedSoFar), mode \in CloudwatchModes :
          LET found == client_ok /\ listing # "fail"
              arns == IF found THEN [i \in 1..k |-> ArnOf(ListedSoFar + i)] ELSE <<>>
          IN  /\ (~found \/ k = 0 => mode = "ok")
              /\ (~found => k = 0)
              /\ listed' = Append(listed, [found |-> found, arns |-> arns])
              /\ cloudwatch' = mode
              /\ clusters_in_region' = arns
              /\ IF arns = <<>>
                 THEN /\ region' = AfterSkippedRegion(region, regions)
                      /\ ci' = 0
                      /\ pc' = "scan"
                 ELSE /\ region' = region
                      /\ ci' = 1
                      /\ pc' = "clusters"
    /\ UNCHANGED <<mvars, dvars, regions, all_cluster_data, report, outcome, scanned>>

\* Lines 365-389: one cluster of the region.
ProcessCluster ==
    /\ pc = "clusters"
    /\ \E a \in ScanInputs :
       /\ api' = a
       /\ \E details \in {get_msk_cluster_details(clusters_in_region[ci], a)} :
          \E metrics \in {IF SkipsCluster(details)
                           THEN [md |-> metrics_data, queries |-> queries, raised |-> raised]
                           ELSE get_msk_metrics(details.d["ClusterType"].s,
                                                details.d["NumberOfBrokerNodes"],
                                                CwFor(cloudwatch, details.d["ClusterType"].s,
                                                      details.d["NumberOfBrokerNodes"]))} :
             LET arn == clusters_in_region[ci]
                 skip == SkipsCluster(details)
                 next == IF skip THEN AfterSkippedCluster(ci, clusters_in_region) ELSE ci + 1
             IN  /\ cluster_details' = details
                 /\ subnet_queries' = DescribeSubnetsCalls(a)
                 /\ scanned' = Append(scanned, [region |-> region, arn |-> arn, api |-> a])
                 /\ IF skip
                    THEN UNCHANGED <<cluster_type, number_of_broker_nodes, metrics_data,
                                     queries, raised, all_cluster_data>>
                    ELSE /\ cluster_type' = details.d["ClusterType"].s
                         /\ number_of_broker_nodes' = details.d["NumberOfBrokerNodes"]
                         /\ metrics_data' = metrics.md
                         /\ queries' = metrics.queries
                         /\ raised' = metrics.raised
                         /\ all_cluster_data' =
                               IF metrics.raised THEN all_cluster_data
                               ELSE Append(all_cluster_data,
                                           Row(AccountId, region, details.d, metrics.md))
                 /\ IF ~skip /\ metrics.raised
                    THEN pc' = "crashed" /\ UNCHANGED <<region, ci>>
                    ELSE IF next > Len(clusters_in_region)
                         THEN pc' = "scan" /\ region' = region + 1 /\ ci' = 0
                         ELSE pc' = "clusters" /\ region' = region /\ ci' = next
    /\ UNCHANGED <<mi, focus, resp, regions, cloudwatch, clusters_in_region,
                   report, outcome, listed>>

\* Lines 392-444: the report is written if there are rows.
WriteReport ==
    /\ pc = "scan"
    /\ region > regions
    /\ IF all_cluster_data # <<>>
       THEN \E csv_ok \in BOOLEAN :
               /\ report' = IF csv_ok THEN Frame(all_cluster_data) ELSE <<>>
               /\ outcome' = IF csv_ok THEN "generated" ELSE "write_error"
       ELSE /\ report' = <<>>
            /\ outcome' = "no_data"
    /\ pc' = "done"
    /\ UNCHANGED <<mvars, dvars, regions, region, cloudwatch, clusters_in_region, ci,
                   all_cluster_data, listed, scanned>>

Next == InitSession \/ ResolveRegions \/ ScanRegion \/ ProcessCluster \/ WriteReport

Spec == Init /\ [][Next]_vars

\* The calls of a run return: every step that can be taken is taken.
FairSpec == Spec /\ WF_vars(Next)

----------------------------------------------------------------------------
(* Properties of one call of get_msk_metrics. *)

\* The result keys of a policy table.
LatestKeys == {c.name : c \in {x \in Range(metric_configs) :
                                  x.aggregation_type = "cluster_latest_value"}}
BrokerKeys == UNION {{AvgKey(c.name), PeakKey(c.name)} :
                        c \in {x \in Range(metric_configs) :
                                  x.aggregation_type # "cluster_latest_value"}}
ServerlessKeys == UNION {{AvgKey(c.name), PeakKey(c.name)} :
                            c \in Range(serverless_metric_configs)}
TableKeys(ctype) ==
    IF ctype = "Serverless" THEN ServerlessKeys ELSE LatestKeys \cup BrokerKeys

\* A broker count that is None, 0 or the empty string.
NoBrokers(nb) == nb \in {Null, Num(0), Str("")}

Returned == pc = "returned" /\ cluster_type \in {"Provisioned", "Serverless"}

\* C1 as stated: whatever the broker count and whatever the queries return, the
\* result of a Provisioned or Serverless call holds every key of its policy table.
C1_EveryTableKeyPresent ==
    Returned => TableKeys(cluster_type) \subseteq DOMAIN metrics_data

\* C1 as amended: the result holds every key of the policy table, each null or a
\* number, unless a Provisioned cluster's broker count is None, 0 or empty: then
\* the result holds the LatestClusterValue keys and no _Avg or _Peak key.
C1_TableKeysPresentUnlessNoBrokers ==
    Returned =>
        /\ \A k \in DOMAIN metrics_data : metrics_data[k].t \in {"null", "num"}
        /\ IF cluster_type = "Provisioned" /\ NoBrokers(number_of_broker_nodes)
           THEN DOMAIN metrics_data = LatestKeys
           ELSE DOMAIN metrics_data = TableKeys(cluster_type)

\* A Provisioned call with two brokers returned with one metric null, its queries
\* having failed or come back empty, and another metric obtained.
C1_Witness ==
    /\ Returned
    /\ cluster_type = "Provisioned"
    /\ number_of_broker_nodes = Num(2)
    /\ TableKeys(cluster_type) \subseteq DOMAIN metrics_data
    /\ metrics_data["BytesInPerSec_Avg"] = Null
    /\ metrics_data["GlobalTopicCount"] = Null
    /\ metrics_data["RequestBytesMean_Peak"] = Num(2)

----------------------------------------------------------------------------
(* Properties of the aggregation of one metric (the metric `focus'). *)

FocusConfig == metric_configs[focus]

\* The focus metric of a Provisioned call has been processed.
FocusDone(kind) ==
    /\ cluster_type = "Provisioned"
    /\ focus >= 1
    /\ mi > focus
    /\ FocusConfig.aggregation_type = kind

\* The brokers whose query succeeded and returned a datapoint with the statistic.
HasDatapoint(i) ==
    resp.brokers[i].kind = "ok" /\ resp.brokers[i].Datapoints # <<>>
WithAverage(n) ==
    {i \in 1..n : HasDatapoint(i) /\ resp.brokers[i].Datapoints[1].Average # Null}
WithMaximum(n) ==
    {i \in 1..n : HasDatapoint(i) /\ resp.brokers[i].Datapoints[1].Maximum # Null}
AverageOf(i) == resp.brokers[i].Datapoints[1].Average.n
MaximumOf(i) == resp.brokers[i].Datapoints[1].Maximum.n

RECURSIVE SumOver(_, _)
SumOver(S, avg) ==
    IF S = {} THEN 0
    ELSE LET i == CHOOSE x \in S : TRUE
         IN  (IF avg THEN AverageOf(i) ELSE MaximumOf(i)) + SumOver(S \ {i}, avg)

\* The queries issued for the focus metric.
FocusQueries ==
    SelectSeq(queries, LAMBDA q : q.metric = FocusConfig.cw_metric_name)

BrokerCountIs(n) == number_of_broker_nodes = Num(n) /\ n >= 1

\* C3: a SumAcrossBrokers metric of a cluster with n >= 1 brokers queries brokers
\* 1..n in order; its _Avg is the sum of the average samples of the brokers that
\* returned one and its _Peak the sum of their maximum samples, never divided by
\* n; both are null when no broker returned data.
C3_SumAcrossBrokers ==
    \A n \in 1..MaxBrokers :
        FocusDone("sum_brokers_agg") /\ BrokerCountIs(n) =>
            /\ FocusQueries =
                  [i \in 1..n |-> [metric |-> FocusConfig.cw_metric_name, broker |-> i]]
            /\ metrics_data[AvgKey(FocusConfig.name)] =
                  IF WithAverage(n) = {} THEN Null
                  ELSE Num(SumOver(WithAverage(n), TRUE))
            /\ metrics_data[PeakKey(FocusConfig.name)] =
                  IF WithMaximum(n) = {} THEN Null
                  ELSE Num(SumOver(WithMaximum(n), FALSE))

\* Two brokers, the first query failed, the second returned a sample: the cluster
\* average is that sample, not half of it.
C3_Witness ==
    /\ FocusDone("sum_brokers_agg") /\ BrokerCountIs(2)
    /\ resp.brokers[1].kind = "fail"
    /\ WithAverage(2) = {2}
    /\ AverageOf(2) = 1
    /\ metrics_data[AvgKey(FocusConfig.name)] = Num(1)

\* C4: an AverageAcrossBrokersPeakMax metric's _Avg is the sum of the average
\* samples obtained divided by how many were obtained (not by the broker count),
\* its _Peak the largest maximum sample obtained, each from its own samples.
C4_AverageAcrossBrokersPeakMax ==
    \A n \in 1..MaxBrokers :
        FocusDone("avg_brokers_peak_max_agg") /\ BrokerCountIs(n) =>
            /\ metrics_data[AvgKey(FocusConfig.name)] =
                  IF WithAverage(n) = {} THEN Null
                  ELSE Rat(SumOver(WithAverage(n), TRUE), Cardinality(WithAverage(n)))
            /\ metrics_data[PeakKey(FocusConfig.name)] =
                  IF WithMaximum(n) = {} THEN Null
                  ELSE Num(CHOOSE m \in {MaximumOf(i) : i \in WithMaximum(n)} :
                              \A i \in WithMaximum(n) : MaximumOf(i) <= m)

\* Two brokers with averages 1 and 2 (mean 3/2); only the first carries a maximum.
C4_Witness ==
    /\ FocusDone("avg_brokers_peak_max_agg") /\ BrokerCountIs(2)
    /\ WithAverage(2) = {1, 2}
    /\ WithMaximum(2) = {1}
    /\ AverageOf(1) = 1 /\ AverageOf(2) = 2
    /\ metrics_data[AvgKey(FocusConfig.name)] = [Null EXCEPT !.t = "num", !.n = 3, !.d = 2]
    /\ metrics_data[PeakKey(FocusConfig.name)] = Num(MaximumOf(1))

\* C5: a LatestClusterValue metric's value is the Maximum of the returned
\* datapoint with the greatest timestamp, in whatever order the datapoints come
\* and whatever the earlier ones hold; null when no datapoint came back.
C5_LatestClusterValue ==
    FocusDone("cluster_latest_value") /\ resp.cluster.kind = "ok" =>
        LET dps == resp.cluster.Datapoints
        IN  IF dps = <<>>
            THEN metrics_data[FocusConfig.name] = Null
            ELSE \E i \in 1..Len(dps) :
                    /\ \A j \in 1..Len(dps) : dps[j].Timestamp <= dps[i].Timestamp
                    /\ metrics_data[FocusConfig.name] = dps[i].Maximum

\* Two datapoints returned oldest first, with different values.
C5_Witness ==
    /\ FocusDone("cluster_latest_value") /\ resp.cluster.kind = "ok"
    /\ Len(resp.cluster.Datapoints) = 2
    /\ resp.cluster.Datapoints[1].Timestamp < resp.cluster.Datapoints[2].Timestamp
    /\ resp.cluster.Datapoints[1].Maximum = Num(1)
    /\ resp.cluster.Datapoints[2].Maximum = Num(2)
    /\ metrics_data[FocusConfig.name] = Num(2)

----------------------------------------------------------------------------
(* Properties of get_msk_cluster_details. *)

\* The raw description has neither a Provisioned nor a Serverless sub-structure.
Neither(a) ==
    a.info.Provisioned.shape # "dict" /\ a.info.Serverless.shape # "dict"

Resolved == pc = "resolved"

\* C7: when describe_cluster_v2 fails and describe_cluster succeeds with an
\* untagged structure that carries broker count and software version as
\* top-level fields, the result is a Provisioned descriptor with those values.
C7_LegacyDescriptionResolves ==
    ( /\ Resolved
      /\ api.v2 = "fail" /\ api.v1 = "ok" /\ api.info.shape = "dict"
      /\ Neither(api)
      /\ Truthy(api.info.NumberOfBrokerNodes) /\ Truthy(api.info.KafkaVersion) )
    => /\ cluster_details.ok
       /\ cluster_details.d["ClusterType"] = Str("Provisioned")
       /\ cluster_details.d["NumberOfBrokerNodes"] = api.info.NumberOfBrokerNodes
       /\ cluster_details.d["KafkaVersion"] = api.info.KafkaVersion

\* The client authentication structure of the sub-structure the details come from.
ClientAuth(a) ==
    IF a.info.Provisioned.shape = "dict"
    THEN a.info.Provisioned.ClientAuthentication
    ELSE a.info.Serverless.ClientAuthentication

EnabledInOrder(a) ==
    LET on == [m \in {"IAM", "SCRAM", "mTLS", "Unauthenticated"} |->
                 CASE m = "IAM" -> a.Iam
                   [] m = "SCRAM" -> a.Scram
                   [] m = "mTLS" -> a.Tls
                   [] OTHER -> a.Unauthenticated]
    IN  SelectSeq(<<"IAM", "SCRAM", "mTLS", "Unauthenticated">>, LAMBDA m : on[m])

\* C8: the result lists exactly the enabled methods in the order IAM, SCRAM,
\* mTLS, Unauthenticated; it is "None Enabled" whenever the structure is present
\* with no flag enabled, and "N/A" only when there is no structure at all.
C8_AuthenticationExtraction ==
    Resolved /\ cluster_details.ok =>
        LET a == ClientAuth(api)
            auth == cluster_details.d["Authentication"]
        IN  /\ a.shape # "absent" =>
                  auth = IF EnabledInOrder(a) = <<>> THEN Str("None Enabled")
                         ELSE Str(Join(EnabledInOrder(a)))
            /\ auth = Str("N/A") => a.shape = "absent"

----------------------------------------------------------------------------
(* Properties of main. *)

\* The scan loop is over.
AfterScan == (pc = "scan" /\ region > regions) \/ pc = "done"

RowArns == [i \in 1..Len(all_cluster_data) |-> all_cluster_data[i]["ClusterArn"]]

NoBrokerQuery == \A i \in 1..Len(queries) : queries[i].broker = 0

\* C2 as stated: for a Provisioned cluster whose broker count is None, 0 or not a
\* number, no per-broker query is issued and the _Avg and _Peak keys of the
\* per-broker metrics are absent from the result of get_msk_metrics.
C2_BrokerKeysAbsent ==
    ( /\ cluster_type = "Provisioned"
      /\ number_of_broker_nodes \in {Null, Num(0), Str("N/A")} )
    => NoBrokerQuery /\ BrokerKeys \cap DOMAIN metrics_data = {}

\* C2 as amended: no per-broker query is issued; with a broker count of None or 0
\* the _Avg and _Peak keys are absent from the result, with a count that is not a
\* number they are present and null; in the written report every such column of
\* the cluster's row is null, never 0.
C2_BrokerKeysAbsentOrNull ==
    /\ ( /\ cluster_type = "Provisioned"
         /\ number_of_broker_nodes \in {Null, Num(0), Str("N/A")} )
       => /\ NoBrokerQuery
          /\ IF number_of_broker_nodes = Str("N/A")
             THEN /\ BrokerKeys \subseteq DOMAIN metrics_data
                  /\ \A k \in BrokerKeys : metrics_data[k] = Null
             ELSE BrokerKeys \cap DOMAIN metrics_data = {}
    /\ pc = "done" /\ outcome = "generated" =>
          /\ Len(report) = Len(all_cluster_data)
          /\ \A i \in 1..Len(report) :
                ( /\ report[i]["ClusterType"] = Str("Provisioned")
                  /\ report[i]["NumberOfBrokerNodes"] \in {Null, Num(0), Str("N/A")} )
                => \A k \in BrokerKeys : report[i][k] = Null

\* A written report with a row of a cluster of 0 brokers and a row of a cluster
\* whose broker count is no number, both with their cluster-level metrics.
C2_Witness ==
    /\ pc = "done" /\ outcome = "generated"
    /\ Len(report) = 2
    /\ report[1]["NumberOfBrokerNodes"] = Num(0)
    /\ report[2]["NumberOfBrokerNodes"] = Str("N/A")
    /\ report[1]["GlobalTopicCount"] = Num(2)
    /\ report[2]["GlobalTopicCount"] = Num(2)
    /\ report[1]["BytesInPerSec_Avg"] = Null
    /\ BrokerKeys \subseteq DOMAIN metrics_data

Usable(sc) ==
    LET details == get_msk_cluster_details(sc.arn, sc.api)
    IN  details.ok /\ Truthy(details.d["ClusterName"])

RECURSIVE ListedFrom(_)
ListedFrom(r) ==
    IF r > Len(listed) THEN <<>>
    ELSE [i \in 1..Len(listed[r].arns) |-> [region |-> r, arn |-> listed[r].arns[i]]]
         \o ListedFrom(r + 1)

\* C9: after the scan loop every region was scanned and every listed cluster
\* processed, in region order then listing order, and the rows are those of the
\* clusters that resolved to a descriptor with a usable name, one each, in that
\* order.
C9_RowsOfResolvedClusters ==
    AfterScan =>
        LET usable == SelectSeq(scanned, Usable)
        IN  /\ Len(listed) = regions
            /\ [i \in 1..Len(scanned) |-> [region |-> scanned[i].region,
                                           arn |-> scanned[i].arn]] = ListedFrom(1)
            /\ Len(all_cluster_data) = Len(usable)
            /\ \A i \in 1..Len(usable) :
                  /\ all_cluster_data[i]["ClusterArn"] = usable[i].arn
                  /\ all_cluster_data[i]["Region"] = Num(usable[i].region)

\* The first region could not be listed; of the two clusters of the second, the
\* first did not resolve and the second has the only row.
C9_Witness ==
    /\ AfterScan
    /\ regions = 2
    /\ ~listed[1].found
    /\ Len(scanned) = 2
    /\ ~Usable(scanned[1])
    /\ Usable(scanned[2])
    /\ RowArns = <<scanned[2].arn>>

\* The run is over and has reported what it collected.
EndsWithReport ==
    /\ pc = "done"
    /\ outcome \in {"generated", "write_error", "no_data"}
    /\ outcome = "generated" <=> (all_cluster_data # <<>> /\ outcome # "write_error")
    /\ outcome = "generated" <=> report # <<>>
    /\ all_cluster_data = <<>> => outcome = "no_data"

\* C10 as stated: at the end of a run an output file has been written if and only
\* if at least one row was collected.
C10_FileIffRows ==
    pc = "done" => (report # <<>> <=> all_cluster_data # <<>>)

\* C10 as amended: once the session and the region list are there, the run
\* reaches its end whatever fails in a region, a cluster or a metric; a file is
\* written exactly when a row was collected and writing the file did not fail,
\* and without rows the run says that no data was found.
C10_RunEndsWithReport == (pc = "scan") ~> EndsWithReport

\* A run ended with a report of one row although a region could not be listed, a
\* cluster could not be described and every metric query failed.
C10_Witness ==
    /\ pc = "done" /\ outcome = "generated"
    /\ ~listed[1].found
    /\ Len(scanned) = 2
    /\ scanned[1].api.v2 = "fail" /\ scanned[1].api.v1 = "fail"
    /\ cloudwatch = "fail"
    /\ Len(report) = 1
    /\ report[1]["BytesInPerSec_Avg"] = Null

----------------------------------------------------------------------------
(* The zone count of a Provisioned cluster. *)

NodeGroup == api.info.Provisioned.BrokerNodeGroupInfo

RECURSIVE Flatten(_)
Flatten(batches) ==
    IF batches = <<>> THEN <<>> ELSE Head(batches) \o Flatten(Tail(batches))

\* A subnet lookup was needed and one failed: the client or one of the calls.
LookupFailed ==
    \/ ~api.ec2.client_ok
    \/ \E b \in 1..Len(NodeGroup.ClientSubnets) :
          /\ (b - 1) * ChunkSize < Len(NodeGroup.ClientSubnets)
          /\ api.ec2.fail_at = b

\* The value when the zone-id list does not give it: batches of at most ChunkSize
\* identifiers, consecutive and covering the subnet list once; the distinct
\* zones of all batches, or the number of subnets when a lookup failed.
ZonesFromSubnets ==
    LET client_subnets == NodeGroup.ClientSubnets
        zones == cluster_details.d["NumberOfAvailabilityZones"]
    IN  /\ \A i \in 1..Len(subnet_queries) :
              Len(subnet_queries[i]) \in 1..ChunkSize
        /\ IF client_subnets = <<>>
           THEN zones = Num(0) /\ subnet_queries = <<>>
           ELSE IF LookupFailed
                THEN zones = Num(Len(client_subnets))
                ELSE /\ Flatten(subnet_queries) = client_subnets
                     /\ zones = Num(Cardinality({api.ec2.az[x] :
                                                   x \in Range(client_subnets)}))

\* C11 as stated: the zone count of a Provisioned cluster is the length of the
\* zone-id list when the description has one, and is taken from the subnets
\* otherwise; the cluster resolves in every case.
C11_ZoneCountFromPresentList ==
    Resolved =>
        /\ cluster_details.ok
        /\ IF NodeGroup.ZoneIds.shape = "list"
           THEN /\ cluster_details.d["NumberOfAvailabilityZones"] =
                      Num(Len(NodeGroup.ZoneIds.ids))
                /\ subnet_queries = <<>>
           ELSE ZonesFromSubnets

\* C11 as amended: the zone count is the length of the zone-id list when the
\* description has a list that is not empty; otherwise, an empty list included,
\* the subnets are looked up in consecutive batches of at most 100 that cover
\* every identifier once and the count is that of the distinct zones found, or
\* the number of subnets when a lookup fails; the cluster resolves in every case.
C11_ZoneCount ==
    Resolved =>
        /\ cluster_details.ok
        /\ IF NodeGroup.ZoneIds.shape = "list" /\ NodeGroup.ZoneIds.ids # <<>>
           THEN /\ cluster_details.d["NumberOfAvailabilityZones"] =
                      Num(Len(NodeGroup.ZoneIds.ids))
                /\ subnet_queries = <<>>
           ELSE ZonesFromSubnets

\* Three batches (100, 100 and 1 identifiers) whose zones alternate batch by
\* batch: two distinct zones over all batches.
C11_Witness ==
    /\ Resolved
    /\ NodeGroup.ZoneIds.shape = "absent"
    /\ Len(NodeGroup.ClientSubnets) = 2 * ChunkSize + 1
    /\ Len(subnet_queries) = 3
    /\ ~LookupFailed
    /\ api.ec2.az[1] = 1 /\ api.ec2.az[ChunkSize + 1] = 2 /\ api.ec2.az[2] = 1
    /\ cluster_details.d["NumberOfAvailabilityZones"] = Num(2)

----------------------------------------------------------------------------
(* The capacity shape of a descriptor. *)

HasProvisioned == api.info.Provisioned.shape = "dict"
HasServerless == api.info.Serverless.shape = "dict"

\* C12: every descriptor returned has its ClusterType from exactly one
\* sub-structure of the description; a description with both a Provisioned and
\* a Serverless sub-structure resolves to no descriptor.
C12_ShapeFromExactlyOneStructure ==
    Resolved /\ cluster_details.ok =>
        /\ HasProvisioned # HasServerless
        /\ cluster_details.d["ClusterType"] =
              Str(IF HasProvisioned THEN "Provisioned" ELSE "Serverless")

----------------------------------------------------------------------------
(* Failures of the queries of one metric. *)

FocusEntry == PolicyTable(cluster_type)[focus]

\* The focus metric takes one cluster-level query (else one query per broker).
FocusClusterLevel ==
    \/ cluster_type = "Serverless"
    \/ FocusEntry.aggregation_type = "cluster_latest_value"

FocusKeySet ==
    IF cluster_type = "Provisioned" /\ FocusClusterLevel
    THEN {FocusEntry.name}
    ELSE {AvgKey(FocusEntry.name), PeakKey(FocusEntry.name)}

FocusQueryName ==
    IF cluster_type = "Serverless" THEN FocusEntry.name ELSE FocusEntry.cw_metric_name

OfOtherMetrics(qs) == SelectSeq(qs, LAMBDA q : q.metric # FocusQueryName)

\* The call in which every query of every metric succeeded.
AllSucceeded ==
    get_msk_metrics(cluster_type, number_of_broker_nodes,
                    CwFor("ok", cluster_type, number_of_broker_nodes))

\* The responses of the focus metric with the failed broker queries answered
\* without a datapoint.
FailedLeftOut ==
    [resp EXCEPT !.brokers =
        [i \in DOMAIN resp.brokers |->
            IF resp.brokers[i].kind = "fail" THEN Reply(<<>>) ELSE resp.brokers[i]]]

\* C13: whatever the queries of one metric return, failures included, the other
\* metrics of the table are queried in table order and have the values of the
\* call in which every query succeeded; a failed metric has null under its own
\* keys, and a failed broker query leaves the later brokers queried and only
\* that broker's sample out of the metric's aggregate.
C13_MetricFailureIsolated ==
    (pc = "returned" /\ focus >= 1) =>
        \A ref \in {AllSucceeded} :
            /\ DOMAIN metrics_data = DOMAIN ref.md
            /\ \A k \in DOMAIN metrics_data \ FocusKeySet :
                  metrics_data[k] = ref.md[k]
            /\ OfOtherMetrics(queries) = OfOtherMetrics(ref.queries)
            /\ Len(queries) = Len(ref.queries)
            /\ (FocusClusterLevel /\ resp.cluster.kind = "fail") =>
                  \A k \in FocusKeySet : metrics_data[k] = Null
            /\ (~FocusClusterLevel /\ resp.brokers # <<>>) =>
                  \A left_out \in {ProvisionedMetric(FocusEntry, number_of_broker_nodes,
                                                     EmptyDict, <<>>, FailedLeftOut)} :
                      \A k \in FocusKeySet : metrics_data[k] = left_out.md[k]

\* The second metric of the Provisioned table failed: it is null, the metric
\* before it and the metrics after it have their values, all were queried.
C13_Witness ==
    /\ pc = "returned"
    /\ cluster_type = "Provisioned"
    /\ number_of_broker_nodes = Num(2)
    /\ focus = 2
    /\ resp.cluster.kind = "fail"
    /\ metrics_data["GlobalPartitionCount"] = Null
    /\ metrics_data["StorageUsedPercent_Avg"] = Num(1)
    /\ metrics_data["GlobalTopicCount"] = Num(2)
    /\ metrics_data["RequestBytesMean_Peak"] = Num(2)
    /\ Len(queries) = 16

====
